---- MODULE Spec2Model ----
(***************************************************************************)
(* ipmi-fans: the fan control loop of src/ipmi-fans/src/main.rs.           *)
(*                                                                         *)
(* The model follows main(): the channel is opened, the fans are set to    *)
(* full speed, and then every tick reads the temperature, runs the curve,  *)
(* the drag (smoother) and the band clamp, commands both zones, appends    *)
(* the duty to the RateHistory ring, runs the anomaly detector and sleeps. *)
(* One tick is three steps: Control (lines 371-402), Detect (404-414) and  *)
(* Sleep (416-417).                                                        *)
(***************************************************************************)
EXTENDS Integers, Sequences, FiniteSets, TLC

VARIABLES
    pc,              \* position in main / in the unit test
    context,         \* the ipmi_ctx_t handle: "null", "live" or "destroyed"
    destroys,        \* how many times ipmi_ctx_destroy ran on the handle
    stale_use,       \* TRUE once a library call got the handle after its destroy
    history,         \* RateHistory {rates, start, len}
    reset_lockout,   \* u8 countdown of main
    temperature,     \* result of read_temperature() of this tick
    curved,          \* `rate` of line 372: curve output, or 255 on a failed read
    last_rate,       \* history.rates().last() of line 373, NoRate for None
    rate,            \* `rate` of line 389: the duty commanded and pushed
    sent,            \* set_fan_duty calls of this tick, in order: [zone, duty]
    evaluated,       \* TRUE when line 404 let the detector run on this tick
    actual_speed,    \* the 8 readings of line 405 (after unwrap_or)
    speed_failed,    \* TRUE when read_fan_speed() returned Err on this tick
    reset_requested, \* TRUE when reset_bmc() was called on this tick
    tick,            \* number of the running tick, counted up to MaxTick
    since_reset,     \* ticks started since the last reset tick, NoReset before any
    pushed,          \* the unit test's record of every value it pushed
    boot,            \* the start-up calls made so far, in order: [call, ok]
    zone_result,     \* results of this tick's set_fan_duty calls, in order
    reset_result     \* result of this tick's reset_bmc call: "none", "ok", "failed"

vars == << pc, context, destroys, stale_use, history, reset_lockout, temperature,
           curved, last_rate, rate, sent, evaluated, actual_speed, speed_failed,
           reset_requested, tick, since_reset, pushed, boot, zone_result,
           reset_result >>

-----------------------------------------------------------------------------
(* Bounds of the model *)

\* the tick counter stops counting here
MaxTick == 6
\* the ticks-since-reset counter stops counting here
MaxSince == 16
\* the unit test pushes at most this many values
MaxPushes == 7
\* the unit test pushes values 0..MaxPushVal
MaxPushVal == 2
SweepWidth == 40     \* half-width of a sweep of fan_curve around a temperature

-----------------------------------------------------------------------------
(* Program constants *)

MIN_TEMP == 20000
MAX_RATE == 100
CURVE_START_LEVEL == 15
CURVE_END_LEVEL == MAX_RATE
CURVE_START_TEMP == 35000
CURVE_END_TEMP == 65000
UP_DRAG == 4
DOWN_DRAG == 8
FAIL_RATE == 255
RATES_LEN == 5
FANS == 8
RESET_LOCKOUT == 15
RPM_LIMIT == 10000
HIGH_DUTY == 80
LOW_DUTY == 50

NoRate == -1
NoReset == -1

-----------------------------------------------------------------------------
(* Results and integer helpers *)

Ok(v) == [ok |-> TRUE, val |-> v]
Err == [ok |-> FALSE, val |-> 0]

I32_MAX == 2147483647
I32_MIN == -2147483647 - 1

\* i32 arithmetic as a release build computes it: two's complement wrap-around
\* (a + b) wrapped to i32
wrapping_add(a, b) ==
    IF a > 0 /\ b > I32_MAX - a THEN (a + I32_MIN) + (b + I32_MIN)
    ELSE IF a < 0 /\ b < I32_MIN - a THEN (a - I32_MIN) + (b - I32_MIN)
    ELSE a + b

\* (a - b) wrapped to i32, for b > 0
wrapping_sub(a, b) ==
    IF a < I32_MIN + b THEN ((a + (I32_MAX - b)) + I32_MAX) + 2
    ELSE a - b

\* (a * k) wrapped to i32, for 0 <= k < 2^15, by 16-bit halves
wrapping_mul(a, k) ==
    LET lo == a % 65536
        hi == (a - lo) \div 65536
        low == lo * k
        l2 == low % 65536
        top == (((hi * k) % 65536) + (low \div 65536)) % 65536
    IN IF top >= 32768 THEN (top - 65536) * 65536 + l2
       ELSE top * 65536 + l2

\* Rust's `/` on signed integers truncates toward zero (b > 0 here); for
\* a < 0 the quotient of -a is taken through -(a + 1), which exists for I32_MIN
TruncDiv(a, b) ==
    IF a >= 0 THEN a \div b
    ELSE LET m == -(a + 1)
         IN -((m \div b) + (IF m % b = b - 1 THEN 1 ELSE 0))

Min2(a, b) == IF a < b THEN a ELSE b

RECURSIVE SeqMin(_)
SeqMin(s) == IF Len(s) = 1 THEN s[1] ELSE Min2(s[1], SeqMin(Tail(s)))

RECURSIVE SeqMax(_)
SeqMax(s) == IF Len(s) = 1 THEN s[1]
             ELSE LET m == SeqMax(Tail(s)) IN IF s[1] > m THEN s[1] ELSE m

-----------------------------------------------------------------------------
(* Temperature: read_temperature_path, read_temperature, fan_curve *)

\* what a thermal zone file holds: an integer, or nothing readable as one
File(i) == Ok(i)
Unreadable == Err

read_temperature_path(file) ==
    IF ~file.ok THEN Err
    ELSE IF file.val < MIN_TEMP THEN Err
    ELSE Ok(file.val)

read_temperature(files) ==
    LET temp0 == read_temperature_path(files[1]) IN
    IF ~temp0.ok THEN Err
    ELSE LET temp1 == read_temperature_path(files[2]) IN
         IF ~temp1.ok THEN Err
         ELSE Ok(TruncDiv(wrapping_add(temp0.val, temp1.val), 2))

\* variant of fan_curve: the slope is the end level, not the level difference
fan_curve_end_level_slope(temp) ==
    LET unclamped ==
            CURVE_START_LEVEL
            + TruncDiv(wrapping_mul(wrapping_sub(temp, CURVE_START_TEMP),
                                    CURVE_END_LEVEL),
                       CURVE_END_TEMP - CURVE_START_TEMP)
    IN IF unclamped < 0 THEN 0
       ELSE IF unclamped > 255 THEN 255
       ELSE unclamped

fan_curve(temp) ==
    LET unclamped ==
            CURVE_START_LEVEL
            + TruncDiv(wrapping_mul(wrapping_sub(temp, CURVE_START_TEMP),
                                    CURVE_END_LEVEL - CURVE_START_LEVEL),
                       CURVE_END_TEMP - CURVE_START_TEMP)
    IN IF unclamped < 0 THEN 0
       ELSE IF unclamped > 255 THEN 255
       ELSE unclamped

\* does the i32 operation leave the i32 range (b > 0, k > 0)
add_overflows(a, b) ==
    \/ a > 0 /\ b > I32_MAX - a
    \/ a < 0 /\ b < I32_MIN - a
sub_overflows(a, b) == a < I32_MIN + b
mul_overflows(a, k) ==
    \/ a > I32_MAX \div k
    \/ a < -((I32_MAX \div k) + (IF I32_MAX % k = k - 1 THEN 1 ELSE 0))

\* line 287: does `temp - CURVE_START_TEMP` or the product overflow
fan_curve_overflows(temp) ==
    IF sub_overflows(temp, CURVE_START_TEMP) THEN TRUE
    ELSE mul_overflows(temp - CURVE_START_TEMP, CURVE_END_LEVEL - CURVE_START_LEVEL)

\* line 275: does `temp0 + temp1` overflow
read_temperature_overflows(files) ==
    LET temp0 == read_temperature_path(files[1])
        temp1 == read_temperature_path(files[2])
    IN temp0.ok /\ temp1.ok /\ add_overflows(temp0.val, temp1.val)

\* does one tick's arithmetic (lines 371-372) overflow
tick_overflows(files) ==
    \/ read_temperature_overflows(files)
    \/ LET t == read_temperature(files) IN t.ok /\ fan_curve_overflows(t.val)

\* variant of curve_or_fail: the substitute is the band ceiling, not 255
curve_or_fail_max_rate(t) == IF t.ok THEN fan_curve(t.val) ELSE MAX_RATE

\* line 372: temperature.map(fan_curve).unwrap_or(255)
curve_or_fail(t) == IF t.ok THEN fan_curve(t.val) ELSE FAIL_RATE

-----------------------------------------------------------------------------
(* RateHistory and its iterator Rates *)

RateHistoryDefault == [rates |-> <<0, 0, 0, 0, 0>>, start |-> 0, len |-> 0]

\* variant of push: a full ring overwrites the oldest slot but keeps `start`
push_keeps_start(h, r) ==
    IF h.len = RATES_LEN
    THEN [h EXCEPT !.rates[h.start + 1] = r]
    ELSE [h EXCEPT !.rates[h.len + 1] = r,
                   !.len = h.len + 1]

\* rates[i] of the source is rates[i + 1] here (sequences count from 1)
push(h, r) ==
    IF h.len = RATES_LEN
    THEN [h EXCEPT !.rates[h.start + 1] = r,
                   !.start = (h.start + 1) % RATES_LEN]
    ELSE [h EXCEPT !.rates[h.len + 1] = r,
                   !.len = h.len + 1]

\* Rates::next run to exhaustion: the values the iterator yields, in order
RECURSIVE RatesNext(_, _, _)
RatesNext(r, index, len) ==
    IF len = 0 THEN << >>
    ELSE << r[index + 1] >> \o RatesNext(r, (index + 1) % RATES_LEN, len - 1)

rates(h) == RatesNext(h.rates, h.start, h.len)

\* variant of full: one entry short
full_one_short(h) == h.len >= RATES_LEN - 1

full(h) == h.len = RATES_LEN

\* variant of last: the highest filled slot of the array, whatever `start` is
last_slot(h) == IF h.len = 0 THEN NoRate ELSE h.rates[h.len]

\* history.rates().last()
last(h) == LET s == rates(h) IN IF Len(s) = 0 THEN NoRate ELSE s[Len(s)]

-----------------------------------------------------------------------------
(* The smoother of lines 373-395 *)

\* variant of drag: the drags are added where the code subtracts them
drag_wrong_sign(r, prev) ==
    LET diff == r - prev IN
    IF diff > UP_DRAG THEN Min2(prev + diff + UP_DRAG, 255)
    ELSE IF diff < -DOWN_DRAG THEN prev
    ELSE prev

\* variant of drag: the drags are applied to the target, not the difference
drag_from_target(r, prev) ==
    LET diff == r - prev IN
    IF diff > UP_DRAG THEN r + diff - UP_DRAG
    ELSE IF diff < -DOWN_DRAG THEN r + diff + DOWN_DRAG
    ELSE prev

\* variant of drag: a hard per-tick step limit
drag_step_limit(r, prev) ==
    LET diff == r - prev IN
    IF diff > UP_DRAG THEN prev + UP_DRAG
    ELSE IF diff < -DOWN_DRAG THEN prev - DOWN_DRAG
    ELSE r

\* lines 374-384, before u8::try_from: the i16 value of the chosen branch
drag(r, prev) ==
    LET diff == r - prev IN
    IF diff > UP_DRAG THEN prev + diff - UP_DRAG
    ELSE IF diff < -DOWN_DRAG THEN prev + diff + DOWN_DRAG
    ELSE prev

\* lines 373-388: the value before the band clamp
smooth(r, prev) == IF prev = NoRate THEN r ELSE drag(r, prev)

\* u8::try_from(x).unwrap() panics outside 0..255
fits_u8(x) == x \in 0..255

\* variant of clamp: the ceiling is not applied
clamp_floor_only(r) == IF r < CURVE_START_LEVEL THEN CURVE_START_LEVEL ELSE r

\* lines 389-395
clamp(r) ==
    IF r < CURVE_START_LEVEL THEN CURVE_START_LEVEL
    ELSE IF r > CURVE_END_LEVEL THEN CURVE_END_LEVEL
    ELSE r

-----------------------------------------------------------------------------
(* The anomaly detector of lines 404-414 *)

\* read_fan_speed: Err when a sensor read fails, else the 8 readings
read_fan_speed(bmc) == IF bmc.fail THEN Err ELSE Ok(bmc.rpm)

\* variant of speed_or_zero: the substitute is a large reading
speed_or_large(res) == IF res.ok THEN res.val ELSE [i \in 1..FANS |-> 65535]

\* .unwrap_or([0u64; 8])
speed_or_zero(res) == IF res.ok THEN res.val ELSE [i \in 1..FANS |-> 0]

\* variant of condition_a: the RPM limit lost a digit
condition_a_low_limit(h, speed) ==
    SeqMin(rates(h)) > HIGH_DUTY /\ SeqMax(speed) < 1000

\* "commanded high, spinning low"
condition_a(h, speed) ==
    SeqMin(rates(h)) > HIGH_DUTY /\ SeqMax(speed) < RPM_LIMIT

\* "commanded low, spinning high"
condition_b(h, speed) ==
    SeqMax(rates(h)) < LOW_DUTY /\ SeqMin(speed) > RPM_LIMIT

anomaly(h, speed) == condition_a(h, speed) \/ condition_b(h, speed)

\* variant of saturating_sub: counts down by two
saturating_sub_two(x) == IF x <= 1 THEN 0 ELSE x - 2

\* variant of saturating_sub: the count stops at one
saturating_sub_stops_at_one(x) == IF x <= 1 THEN x ELSE x - 1

\* reset_lockout.saturating_sub(1)
saturating_sub(x) == IF x = 0 THEN 0 ELSE x - 1

-----------------------------------------------------------------------------
(* Inputs *)

\* the contents of thermal_zone0/temp and thermal_zone1/temp on one tick
ThermalZones ==
    { << File(20000), File(20000) >>,
      << File(64000), File(66000) >>,
      << File(65000), File(19999) >>,
      << Unreadable, File(35000) >> }

AllFans(v) == [i \in 1..FANS |-> v]

\* what the BMC answers to the 8 sensor reads of one tick
BmcReadings ==
    { [fail |-> TRUE, rpm |-> AllFans(10100)],
      [fail |-> FALSE, rpm |-> AllFans(9900)],
      [fail |-> FALSE, rpm |-> AllFans(10000)],
      [fail |-> FALSE, rpm |-> AllFans(10100)],
      [fail |-> FALSE, rpm |-> [AllFans(10100) EXCEPT ![3] = 9900]] }

-----------------------------------------------------------------------------
(* main *)

Init ==
    /\ pc = "find_inband"
    /\ context = "null"
    /\ destroys = 0
    /\ stale_use = FALSE
    /\ history = RateHistoryDefault
    /\ reset_lockout = 0
    /\ temperature = Err
    /\ curved = 0
    /\ last_rate = NoRate
    /\ rate = 0
    /\ sent = << >>
    /\ evaluated = FALSE
    /\ actual_speed = AllFans(0)
    /\ speed_failed = FALSE
    /\ reset_requested = FALSE
    /\ tick = 0
    /\ since_reset = NoReset
    /\ pushed = << >>
    /\ boot = << >>
    /\ zone_result = << >>
    /\ reset_result = "none"

loopVars == << history, reset_lockout, temperature, curved, last_rate, rate, sent,
               evaluated, actual_speed, speed_failed, reset_requested, tick,
               since_reset, pushed, zone_result, reset_result >>

\* line 363: Ipmi::find_inband().expect(..), lines 76-102
FindInband ==
    /\ pc = "find_inband"
    /\ \E outcome \in {"malloc_failed", "find_failed", "ok"} :
          /\ boot' = Append(boot, [call |-> "find_inband", ok |-> outcome = "ok"])
          /\ IF outcome = "ok"
             THEN /\ context' = "live"
                  /\ pc' = "set_fan_to_full"
                  /\ UNCHANGED << destroys, stale_use >>
             ELSE IF outcome = "malloc_failed"
             THEN \* lines 80-82: ipmi_ctx_create gave null, panic
                  /\ pc' = "exit"
                  /\ UNCHANGED << context, destroys, stale_use >>
             ELSE \* lines 96-97: destroy, then ipmi_ctx_errnum on the same
                  \* handle; whatever number that read yields, expect() panics
                  /\ context' = "destroyed"
                  /\ destroys' = destroys + 1
                  /\ stale_use' = TRUE
                  /\ pc' = "exit"
    /\ UNCHANGED loopVars

\* variant of SetFanToFull: a failed command is logged and the loop starts
SetFanToFull_logs_error ==
    /\ pc = "set_fan_to_full"
    /\ \E ok \in BOOLEAN :
          boot' = Append(boot, [call |-> "set_fan_to_full", ok |-> ok])
    /\ pc' = "loop"
    /\ UNCHANGED << context, destroys, stale_use >>
    /\ UNCHANGED loopVars

\* lines 365-366: ipmi.set_fan_to_full().expect(..)
SetFanToFull ==
    /\ pc = "set_fan_to_full"
    /\ \E ok \in BOOLEAN :
          /\ boot' = Append(boot, [call |-> "set_fan_to_full", ok |-> ok])
          /\ IF ok
             THEN /\ pc' = "loop"
                  /\ UNCHANGED << context, destroys >>
             ELSE \* the panic unwinds main and drops ipmi (lines 201-207)
                  /\ context' = "destroyed"
                  /\ destroys' = destroys + 1
                  /\ pc' = "exit"
    /\ UNCHANGED stale_use
    /\ UNCHANGED loopVars

\* a panic inside the loop: main unwinds and drops ipmi (lines 201-207)
Unwind ==
    /\ pc' = "exit"
    /\ context' = "destroyed"
    /\ destroys' = destroys + 1
    /\ UNCHANGED << temperature, curved, last_rate, rate, sent, history, tick,
                    since_reset, zone_result >>

\* variant of commands: the first failed command ends the tick's commands
commands_stop_on_error(duty, zone0_ok, zone1_ok) ==
    IF zone0_ok
    THEN << [zone |-> 0, duty |-> duty], [zone |-> 1, duty |-> duty] >>
    ELSE << [zone |-> 0, duty |-> duty] >>

\* lines 396-401: the set_fan_duty calls of one tick, in order; an Err is
\* logged by eprintln and the next statement runs
commands(duty, zone0_ok, zone1_ok) ==
    << [zone |-> 0, duty |-> duty], [zone |-> 1, duty |-> duty] >>

\* lines 371-402 with the given thermal zone files and the results of the two
\* set_fan_duty calls. An i32 overflow in lines 275 or 287 wraps in a release
\* build and panics in a debug build: both outcomes are possible.
ControlWith(files, zone0_ok, zone1_ok) ==
    /\ pc = "loop"
    /\ LET t == read_temperature(files)
           r0 == curve_or_fail(t)
           prev == last(history)
           s == smooth(r0, prev)
           Proceed ==
               LET duty == clamp(s) IN
               /\ temperature' = t
               /\ curved' = r0
               /\ last_rate' = prev
               /\ tick' = Min2(tick + 1, MaxTick)
               /\ since_reset' = IF since_reset = NoReset THEN NoReset
                                 ELSE Min2(since_reset + 1, MaxSince)
               /\ rate' = duty
               /\ sent' = commands(duty, zone0_ok, zone1_ok)
               /\ zone_result' = << zone0_ok, zone1_ok >>
               /\ history' = push(history, duty)
               /\ pc' = "detect"
               /\ UNCHANGED << context, destroys >>
       IN IF ~fits_u8(s)
          THEN Unwind    \* u8::try_from(..).unwrap() panics
          ELSE \/ Proceed
               \/ /\ tick_overflows(files)
                  /\ Unwind
    /\ UNCHANGED << stale_use, reset_lockout, evaluated, actual_speed, speed_failed,
                    reset_requested, pushed, boot, reset_result >>

Control ==
    \E files \in ThermalZones, zone0_ok \in BOOLEAN, zone1_ok \in BOOLEAN :
        ControlWith(files, zone0_ok, zone1_ok)

\* lines 404-414; the result of reset_bmc (reset_ok) is dropped by `let _`
Detect ==
    /\ pc = "detect"
    /\ IF full(history) /\ reset_lockout = 0
       THEN \E bmc \in BmcReadings :
               LET res == read_fan_speed(bmc)
                   speed == speed_or_zero(res)
               IN /\ evaluated' = TRUE
                  /\ speed_failed' = ~res.ok
                  /\ actual_speed' = speed
                  /\ IF anomaly(history, speed)
                     THEN \E reset_ok \in BOOLEAN :
                             /\ reset_lockout' = RESET_LOCKOUT
                             /\ reset_requested' = TRUE
                             /\ reset_result' = IF reset_ok THEN "ok" ELSE "failed"
                     ELSE UNCHANGED << reset_lockout, reset_requested,
                                       reset_result >>
       ELSE UNCHANGED << evaluated, speed_failed, actual_speed, reset_lockout,
                         reset_requested, reset_result >>
    /\ zone_result' = << >>
    /\ pc' = "sleep"
    /\ UNCHANGED << context, destroys, stale_use, history, temperature, curved,
                    last_rate, rate, sent, tick, since_reset, pushed, boot >>

\* lines 416-417; the locals of the iteration go out of scope
Sleep ==
    /\ pc = "sleep"
    /\ reset_lockout' = saturating_sub(reset_lockout)
    /\ since_reset' = IF reset_requested THEN 0 ELSE since_reset
    /\ evaluated' = FALSE
    /\ speed_failed' = FALSE
    /\ actual_speed' = AllFans(0)
    /\ reset_requested' = FALSE
    /\ reset_result' = "none"
    /\ pc' = "loop"
    /\ UNCHANGED << context, destroys, stale_use, history, temperature, curved,
                    last_rate, rate, sent, tick, pushed, boot, zone_result >>

Next == FindInband \/ SetFanToFull \/ Control \/ Detect \/ Sleep

Spec == Init /\ [][Next]_vars

-----------------------------------------------------------------------------
(* Steady temperature: every read gives 35000 m degrees C in both zones.    *)
(* The runs start at the loop top after a first tick that commanded any     *)
(* duty of the band; the loop never ends, each step is taken in time.       *)

SteadyFiles == << File(CURVE_START_TEMP), File(CURVE_START_TEMP) >>

\* a temperature whose curve value is CURVE_START_LEVEL + k, for k in 0..85
FirstTemp(k) == CURVE_START_TEMP + 353 * k

InitSteady ==
    \E k \in 0..(CURVE_END_LEVEL - CURVE_START_LEVEL) :
        LET files == << File(FirstTemp(k)), File(FirstTemp(k)) >>
            t == read_temperature(files)
            r == clamp(smooth(curve_or_fail(t), NoRate))
        IN /\ pc = "loop"
           /\ context = "live"
           /\ destroys = 0
           /\ stale_use = FALSE
           /\ history = push(RateHistoryDefault, r)
           /\ reset_lockout = 0
           /\ temperature = t
           /\ curved = curve_or_fail(t)
           /\ last_rate = NoRate
           /\ rate = r
           /\ sent = << [zone |-> 0, duty |-> r], [zone |-> 1, duty |-> r] >>
           /\ evaluated = FALSE
           /\ actual_speed = AllFans(0)
           /\ speed_failed = FALSE
           /\ reset_requested = FALSE
           /\ tick = 1
           /\ since_reset = NoReset
           /\ pushed = << >>
           /\ boot = << [call |-> "find_inband", ok |-> TRUE],
                        [call |-> "set_fan_to_full", ok |-> TRUE] >>
           /\ zone_result = << >>
           /\ reset_result = "none"

\* the commands succeed: their results change nothing but zone_result
SteadyControl == ControlWith(SteadyFiles, TRUE, TRUE)

NextSteady == SteadyControl \/ Detect \/ Sleep

SpecSteady == InitSteady /\ [][NextSteady]_vars /\ WF_vars(NextSteady)

-----------------------------------------------------------------------------
(* The controller from its start with two kinds of reading, the coldest     *)
(* accepted one (target 0, duty 15) and a failed one (target 255, duty 100),*)
(* so that both anomaly conditions occur; each step is taken in time.       *)

LiveZones == { << File(MIN_TEMP), File(MIN_TEMP) >>, << Unreadable, Unreadable >> }

LiveControl == \E files \in LiveZones : ControlWith(files, TRUE, TRUE)

NextLive == FindInband \/ SetFanToFull \/ LiveControl \/ Detect \/ Sleep

SpecLive == Init /\ [][NextLive]_vars /\ WF_vars(NextLive)

-----------------------------------------------------------------------------
(* Any target after any duty: the runs start at the loop top after a first  *)
(* tick that commanded any duty of the band; the second tick reads any      *)
(* temperature, or fails to, so that the curved target is any of 0..255;    *)
(* the following ticks read what the second read, until the window is full. *)

\* a temperature whose curve value is x, for x in 0..255
TargetTemp(x) == CURVE_START_TEMP + 353 * (x - CURVE_START_LEVEL)

TargetFiles ==
    { << File(TargetTemp(x)), File(TargetTemp(x)) >> : x \in 0..255 }
    \cup { << Unreadable, Unreadable >> }

SweepControl ==
    /\ last_rate = NoRate
    /\ \E files \in TargetFiles : ControlWith(files, TRUE, TRUE)

\* the thermal zones as the tick before found them
HeldFiles ==
    IF temperature.ok THEN << File(temperature.val), File(temperature.val) >>
    ELSE << Unreadable, Unreadable >>

HoldControl ==
    /\ last_rate # NoRate
    /\ ~full(history)
    /\ ControlWith(HeldFiles, TRUE, TRUE)

NextSweep == SweepControl \/ HoldControl \/ Detect \/ Sleep

SpecSweep == InitSteady /\ [][NextSweep]_vars

-----------------------------------------------------------------------------
(* The unit test tests::rate_history_works, with any values pushed *)

InitTest ==
    /\ pc = "test"
    /\ context = "null"
    /\ destroys = 0
    /\ stale_use = FALSE
    /\ history = RateHistoryDefault
    /\ reset_lockout = 0
    /\ temperature = Err
    /\ curved = 0
    /\ last_rate = NoRate
    /\ rate = 0
    /\ sent = << >>
    /\ evaluated = FALSE
    /\ actual_speed = AllFans(0)
    /\ speed_failed = FALSE
    /\ reset_requested = FALSE
    /\ tick = 0
    /\ since_reset = NoReset
    /\ pushed = << >>
    /\ boot = << >>
    /\ zone_result = << >>
    /\ reset_result = "none"

TestPush ==
    /\ pc = "test"
    /\ Len(pushed) < MaxPushes
    /\ \E v \in 0..MaxPushVal :
          /\ history' = push(history, v)
          /\ pushed' = Append(pushed, v)
    /\ UNCHANGED << pc, context, destroys, stale_use, reset_lockout, temperature,
                    curved, last_rate, rate, sent, evaluated, actual_speed,
                    speed_failed, reset_requested, tick, since_reset, boot,
                    zone_result, reset_result >>

NextTest == TestPush

SpecTest == InitTest /\ [][NextTest]_vars

-----------------------------------------------------------------------------
(* fan_curve alone, as line 372 calls it: swept one millidegree at a time   *)
(* over the calibrated range and around the temperatures where the i32      *)
(* arithmetic of line 287 changes behaviour. `temperature` holds the        *)
(* argument, `curved` the value returned by the latest call.                *)

CurveSlope == CURVE_END_LEVEL - CURVE_START_LEVEL

\* temperatures the sweeps are centred on: both ends of i32, the first
\* subtraction that fits, the last products that fit, the curve's zero and
\* its saturation
CurvePoints ==
    { I32_MIN + SweepWidth,
      I32_MIN + CURVE_START_TEMP,
      CURVE_START_TEMP - (I32_MAX \div CurveSlope),
      0,
      CURVE_START_TEMP + (I32_MAX \div CurveSlope),
      I32_MAX - SweepWidth }

CurveSweeps ==
    { << p - SweepWidth, p + SweepWidth >> : p \in CurvePoints }
    \cup { << CURVE_START_TEMP - SweepWidth, CURVE_END_TEMP + SweepWidth >> }

InitCurve ==
    /\ pc = "fan_curve"
    /\ context = "null"
    /\ destroys = 0
    /\ stale_use = FALSE
    /\ history = RateHistoryDefault
    /\ reset_lockout = 0
    /\ \E sweep \in CurveSweeps : temperature = Ok(sweep[1])
    /\ curved = 0
    /\ last_rate = NoRate
    /\ rate = 0
    /\ sent = << >>
    /\ evaluated = FALSE
    /\ actual_speed = AllFans(0)
    /\ speed_failed = FALSE
    /\ reset_requested = FALSE
    /\ tick = 0
    /\ since_reset = NoReset
    /\ pushed = << >>
    /\ boot = << >>
    /\ zone_result = << >>
    /\ reset_result = "none"

\* one call of fan_curve; an overflowing call wraps in a release build and
\* panics in a debug build
CurveCall ==
    /\ pc = "fan_curve"
    /\ \/ /\ curved' = curve_or_fail(temperature)
          /\ pc' = "curve_done"
       \/ /\ fan_curve_overflows(temperature.val)
          /\ pc' = "exit"
          /\ UNCHANGED curved
    /\ UNCHANGED << context, destroys, stale_use, history, reset_lockout,
                    temperature, last_rate, rate, sent, evaluated, actual_speed,
                    speed_failed, reset_requested, tick, since_reset, pushed,
                    boot, zone_result, reset_result >>

\* the next temperature of the sweep
CurveNext ==
    /\ pc = "curve_done"
    /\ \E sweep \in CurveSweeps :
          /\ sweep[1] <= temperature.val
          /\ temperature.val < sweep[2]
    /\ temperature' = Ok(temperature.val + 1)
    /\ pc' = "fan_curve"
    /\ UNCHANGED << context, destroys, stale_use, history, reset_lockout, curved,
                    last_rate, rate, sent, evaluated, actual_speed, speed_failed,
                    reset_requested, tick, since_reset, pushed, boot, zone_result,
                    reset_result >>

NextCurve == CurveCall \/ CurveNext

SpecCurve == InitCurve /\ [][NextCurve]_vars

-----------------------------------------------------------------------------
(* Properties. After the first Control (tick >= 1) the variables            *)
(* temperature, curved, last_rate, rate and sent hold what the latest tick  *)
(* read, computed and commanded; evaluated, actual_speed, speed_failed and  *)
(* reset_requested hold what the detector did on the running tick.          *)

InBand(d) == CURVE_START_LEVEL <= d /\ d <= CURVE_END_LEVEL

\* both zones were commanded, zone 0 first, with duty d
SentBoth(d) ==
    /\ Len(sent) = 2
    /\ sent[1] = [zone |-> 0, duty |-> d]
    /\ sent[2] = [zone |-> 1, duty |-> d]

AllRates(P(_)) == \A i \in 1..Len(rates(history)) : P(rates(history)[i])
AllSpeeds(P(_)) == \A f \in 1..FANS : P(actual_speed[f])

\* C1: on every tick, whatever the temperature outcome and the history, the
\* duty passed to set_fan_duty for zone 0 and zone 1 and appended to the
\* history lies in [15, 100].
C1_OperatingBand ==
    /\ \A i \in 1..Len(sent) : InBand(sent[i].duty)
    /\ AllRates(InBand)
    /\ tick >= 1 => /\ InBand(rate)
                    /\ SentBoth(rate)
                    /\ last(history) = rate

\* C1 witness: a failed read (target 255) was commanded as 100 after the
\* floor had been commanded on an earlier tick.
C1_Witness ==
    /\ pc = "detect"
    /\ curved = 255
    /\ SentBoth(100)
    /\ \E i \in 1..Len(rates(history)) : rates(history)[i] = 15

\* C2 as claimed: on a tick whose temperature read fails, the duty commanded
\* to every zone is 255.
C2_Claimed ==
    (tick >= 1 /\ ~temperature.ok) => SentBoth(255)

\* C2 as amended: on a tick whose temperature read fails the curve is
\* bypassed (the target is 255), the smoother and the band clamp still run,
\* and the duty commanded to both zones is 100 whatever the history holds.
C2_FailSafe ==
    (tick >= 1 /\ ~temperature.ok) =>
        /\ curved = 255
        /\ rate = CURVE_END_LEVEL
        /\ SentBoth(CURVE_END_LEVEL)

\* C2 witness: the read failed on a tick that followed a commanded 15.
C2_Witness ==
    /\ pc = "detect"
    /\ ~temperature.ok
    /\ last_rate = 15
    /\ SentBoth(100)

\* C3 as claimed: with a non-empty history, P - 8 <= R <= P + 4 for the
\* previous duty P and the duty R commanded this tick.
C3_Claimed ==
    (tick >= 1 /\ last_rate # NoRate) =>
        /\ last_rate - DOWN_DRAG <= rate
        /\ rate <= last_rate + UP_DRAG

\* C3 as amended: with a non-empty history, the commanded duty R moves from
\* the previous duty P toward the target X by at most the distance less the
\* drag: P - max(0, (P - X) - 8) <= R <= P + max(0, (X - P) - 4).
C3_StepBound ==
    (tick >= 1 /\ last_rate # NoRate) =>
        LET up == IF curved - last_rate > UP_DRAG
                  THEN (curved - last_rate) - UP_DRAG ELSE 0
            down == IF last_rate - curved > DOWN_DRAG
                    THEN (last_rate - curved) - DOWN_DRAG ELSE 0
        IN /\ last_rate - down <= rate
           /\ rate <= last_rate + up

\* C3 witness: the target jumped from 15 to 100 and 96 was commanded.
C3_Witness ==
    /\ pc = "detect"
    /\ last_rate = 15
    /\ curved = 100
    /\ rate = 96

\* C4: when the detector step runs with 5 history entries all > 80, lockout
\* zero and every reading < 10000, a reset is requested and the lockout is
\* set to 15; no reset is requested on the tick right after a reset tick.
C4_TriggerAndLockout ==
    /\ [][ ( /\ pc = "detect"
             /\ full(history)
             /\ reset_lockout = 0
             /\ \A i \in 1..RATES_LEN : rates(history)[i] > 80
             /\ pc' = "sleep"
             /\ \A f \in 1..FANS : actual_speed'[f] < 10000 )
           => (reset_requested' /\ reset_lockout' = 15) ]_vars
    /\ [](since_reset = 1 => ~reset_requested /\ ~evaluated)

\* C4 witness: the tick after a reset tick, window still all > 80, the
\* detector step done and no reset requested.
C4_Witness ==
    /\ pc = "sleep"
    /\ since_reset = 1
    /\ reset_lockout = 14
    /\ AllRates(LAMBDA d : d > 80)
    /\ ~reset_requested

\* C5 as claimed: no reset is requested, and the detector is not evaluated,
\* on any of the 15 ticks that follow a reset tick.
C5_Claimed ==
    (evaluated \/ reset_requested) =>
        (since_reset = NoReset \/ since_reset > 15)

\* C5 as amended: no reset is requested, and the detector is not evaluated,
\* on any of the 14 ticks that follow a reset tick; the 15th tick is the
\* first on which it can run again.
C5_Cooldown ==
    (evaluated \/ reset_requested) =>
        (since_reset = NoReset \/ since_reset > 14)

\* C5 witness: a reset requested on the 15th tick after a reset tick.
C5_Witness ==
    /\ pc = "sleep"
    /\ reset_requested
    /\ since_reset = 15

\* C6 as claimed: on a qualifying tick where the fan speed read fails, no
\* reset is requested even when all five history entries are > 80.
C6_Claimed ==
    (evaluated /\ speed_failed /\ AllRates(LAMBDA d : d > 80))
        => ~reset_requested

\* C6 as amended: on a qualifying tick where the fan speed read fails, the
\* readings are taken as all zero; this never requests a reset through
\* condition B, and it requests one through condition A exactly when all
\* five history entries are > 80.
C6_SpeedFailure ==
    (evaluated /\ speed_failed) =>
        /\ AllSpeeds(LAMBDA v : v = 0)
        /\ reset_requested <=> AllRates(LAMBDA d : d > 80)

\* C6 witness: the read failed with the window all > 80 and a reset was
\* requested.
C6_Witness ==
    /\ pc = "sleep"
    /\ evaluated
    /\ speed_failed
    /\ AllRates(LAMBDA d : d > 80)
    /\ reset_requested

\* C7 as claimed: with every read giving 35000, the commanded duty
\* eventually becomes 15 and stays 15.
C7_Claimed == <>[](rate = CURVE_START_LEVEL)

\* C7 as amended: with every read giving 35000, the first such tick brings
\* the commanded duty to 23 when the duty commanded before was above 23 and
\* leaves it as it was otherwise; from then on it lies in [15, 23] and never
\* changes again (it is 15 only when it was 15 before).
C7_Settles ==
    /\ [][ (pc = "loop" /\ pc' = "detect") =>
               rate' = IF rate > CURVE_START_LEVEL + DOWN_DRAG
                       THEN CURVE_START_LEVEL + DOWN_DRAG ELSE rate ]_vars
    /\ [](tick >= 2 => (15 <= rate /\ rate <= 23 /\ last(history) = rate))

\* C7 witness: 100 was commanded before, and the steady reads brought 23.
C7_Witness ==
    /\ pc = "detect"
    /\ tick = 2
    /\ last_rate = 100
    /\ curved = 15
    /\ rate = 23

\* C8: the value before the band clamp is the target X on an empty history,
\* X - 4 when X - P > 4, X + 8 when X - P < -8, and P otherwise; the
\* commanded duty is that value clamped to [15, 100].
C8_CaseAnalysis ==
    tick >= 1 =>
        LET X == curved
            P == last_rate
            v == IF P = NoRate THEN X
                 ELSE IF X - P > 4 THEN X - 4
                 ELSE IF X - P < -8 THEN X + 8
                 ELSE P
            c == IF v < 15 THEN 15 ELSE IF v > 100 THEN 100 ELSE v
        IN rate = c /\ SentBoth(c)

\* C8 witness: a target 4 above the previous duty was ignored on that tick.
C8_Witness ==
    /\ pc = "detect"
    /\ last_rate = 96
    /\ curved = 100
    /\ rate = 96

\* C9: a reset is requested only by a detector step that finds 5 history
\* entries, lockout zero, and either all entries > 80 with all 8 readings
\* < 10000 or all entries < 50 with all 8 readings > 10000; never during
\* the first four ticks.
C9_NoSpuriousReset ==
    [][ (reset_requested' /\ ~reset_requested) =>
            /\ pc = "detect"
            /\ history' = history
            /\ Len(rates(history)) = 5
            /\ reset_lockout = 0
            /\ tick >= 5
            /\ \/ /\ \A i \in 1..5 : rates(history)[i] > 80
                  /\ \A f \in 1..FANS : actual_speed'[f] < 10000
               \/ /\ \A i \in 1..5 : rates(history)[i] < 50
                  /\ \A f \in 1..FANS : actual_speed'[f] > 10000 ]_vars

\* C9 witness: a reset on the fifth tick, all entries < 50 and all fans
\* above 10000.
C9_Witness ==
    /\ pc = "sleep"
    /\ reset_requested
    /\ tick = 5
    /\ AllRates(LAMBDA d : d < 50)
    /\ AllSpeeds(LAMBDA v : v > 10000)

\* C10: after n pushes on an empty RateHistory, rates() yields the last
\* min(n, 5) pushed values in push order, full() holds iff n >= 5, and the
\* occupancy never exceeds 5.
C10_RingSemantics ==
    LET n == Len(pushed)
        k == IF n < 5 THEN n ELSE 5
    IN /\ rates(history) = SubSeq(pushed, n - k + 1, n)
       /\ full(history) <=> n >= 5
       /\ history.len = k
       /\ Len(rates(history)) <= 5

\* C10 witness: seven pushes, the two oldest evicted and differing from
\* the values now in their places.
C10_Witness ==
    /\ Len(pushed) = 7
    /\ pushed[1] # pushed[3]
    /\ pushed[2] # pushed[7]
    /\ rates(history)[1] = pushed[3]

-----------------------------------------------------------------------------
(* C11..C20 *)

\* the value of 15 + trunc(85 * (temp - 35000) / 30000) over the integers,
\* saturated into 0..255. Nine ranges above the start the value is
\* 15 + 9 * 85 > 255, nine ranges below it is 15 - 9 * 85 < 0; between the
\* two the product is below 2^25 in size.
ExactCurve(temp) ==
    LET range == CURVE_END_TEMP - CURVE_START_TEMP IN
    IF temp >= CURVE_START_TEMP + 9 * range THEN 255
    ELSE IF temp <= CURVE_START_TEMP - 9 * range THEN 0
    ELSE LET v == CURVE_START_LEVEL
                  + TruncDiv(CurveSlope * (temp - CURVE_START_TEMP), range)
         IN IF v < 0 THEN 0 ELSE IF v > 255 THEN 255 ELSE v

\* C11 as claimed: for every i32 temperature fan_curve returns, without
\* overflow, wrap-around or failure, the exact saturated value of the formula.
C11_Claimed ==
    /\ pc # "exit"
    /\ pc = "curve_done" => curved = ExactCurve(temperature.val)

\* C12: fan_curve(35000) = 15, fan_curve(65000) = 100, and from each
\* temperature of 35000..65000 to the next the returned value never decreases.
C12_Calibration ==
    /\ [](pc = "curve_done" /\ temperature.val = CURVE_START_TEMP
            => curved = CURVE_START_LEVEL)
    /\ [](pc = "curve_done" /\ temperature.val = CURVE_END_TEMP
            => curved = CURVE_END_LEVEL)
    /\ [](pc = "fan_curve" /\ CURVE_START_TEMP < temperature.val
                           /\ temperature.val <= CURVE_END_TEMP
            => curved = fan_curve(temperature.val - 1))
    /\ [][pc = "fan_curve" /\ pc' = "curve_done"
          /\ CURVE_START_TEMP < temperature.val
          /\ temperature.val <= CURVE_END_TEMP
            => curved' >= curved]_vars

C12_Witness ==
    /\ pc = "curve_done"
    /\ temperature.val = CURVE_END_TEMP
    /\ curved = CURVE_END_LEVEL


\* C13: a tick that starts with the lockout at 3 is the 12th after a reset
\* tick; the detector is not evaluated on it nor on the next two, the lockout
\* is 0 when the 3rd of them ends, and the detector is evaluated on the 4th.
\* Every Sleep lowers the lockout by exactly one, stopping at zero, and no
\* other step of a tick lowers it.
C13_Countdown ==
    /\ [](pc = "loop" /\ reset_lockout = 3 => since_reset = 11 /\ full(history))
    /\ [](since_reset \in 12..14 => ~evaluated)
    /\ [](pc = "loop" /\ since_reset \in 0..14 => reset_lockout = 14 - since_reset)
    /\ [](pc = "sleep" /\ since_reset = 15 => evaluated)
    /\ [][pc = "sleep" =>
            reset_lockout' = IF reset_lockout = 0 THEN 0 ELSE reset_lockout - 1]_vars
    /\ [][pc # "sleep" => reset_lockout' >= reset_lockout]_vars

\* C13 witness: the 4th tick after a tick that started with lockout 3, the
\* detector evaluated again and finding nothing.
C13_Witness ==
    /\ pc = "sleep"
    /\ since_reset = 15
    /\ evaluated
    /\ ~reset_requested
    /\ reset_lockout = 0


\* C14: whatever the results of the two set_fan_duty calls, zone 0 and then
\* zone 1 are commanded with the tick's duty, that duty is the one the
\* smoother and the clamp give and it is appended to the history, and the
\* lockout is left alone; whatever the result of reset_bmc, the lockout is 15
\* after a reset request, and the step after a failed reset is the sleep that
\* lowers it to 14, not another request.
C14_FailuresSkipped ==
    /\ [](pc = "detect" => Len(zone_result) = 2 /\ SentBoth(rate))
    /\ [][pc = "loop" /\ pc' = "detect" =>
            /\ rate' = clamp(smooth(curved', last(history)))
            /\ history' = push(history, rate')
            /\ reset_lockout' = reset_lockout]_vars
    /\ [](reset_requested => reset_lockout = RESET_LOCKOUT)
    /\ [](reset_result # "none" => reset_requested /\ pc = "sleep")
    /\ [][reset_result = "failed" =>
            /\ pc' = "loop"
            /\ reset_lockout' = RESET_LOCKOUT - 1
            /\ ~reset_requested']_vars
    /\ [](since_reset \in 1..14 => ~reset_requested)

\* C14 witness: the zone 0 command failed, zone 1 was still commanded.
C14_Witness ==
    /\ pc = "detect"
    /\ tick >= 2
    /\ zone_result = << FALSE, TRUE >>
    /\ SentBoth(rate)


StartedUp ==
    boot = << [call |-> "find_inband", ok |-> TRUE],
              [call |-> "set_fan_to_full", ok |-> TRUE] >>

\* C15: a loop tick, a duty command, a fan speed read or a reset request
\* happens only after find_inband and then set_fan_to_full both succeeded;
\* set_fan_to_full is called only after find_inband succeeded; when either
\* fails the process is terminated, with no tick run and nothing commanded,
\* and takes no further step.
C15_FailFast ==
    /\ []( ( \/ pc \in {"loop", "detect", "sleep"}
             \/ tick >= 1
             \/ sent # << >>
             \/ evaluated
             \/ reset_requested )
           => StartedUp )
    /\ [](Len(boot) >= 1 => boot[1].call = "find_inband")
    /\ [](Len(boot) >= 2 => /\ Len(boot) = 2
                            /\ boot[1].ok
                            /\ boot[2].call = "set_fan_to_full")
    /\ [](\A i \in 1..Len(boot) :
            ~boot[i].ok => /\ Len(boot) = i
                           /\ pc = "exit"
                           /\ tick = 0
                           /\ sent = << >>
                           /\ ~evaluated
                           /\ ~reset_requested)
    /\ [][pc # "exit"]_vars

\* C15 witness: the channel opened, the full-speed command failed, the
\* process ended before any tick.
C15_Witness ==
    /\ pc = "exit"
    /\ Len(boot) = 2
    /\ boot[1].ok
    /\ ~boot[2].ok
    /\ tick = 0


\* C16: on every tick after the first the previous duty the smoother reads
\* is the duty commanded and appended on the tick before, whatever that tick
\* read and whatever its commands returned, also once the ring has wrapped;
\* every tick appends exactly one entry, its own duty, dropping the oldest
\* entry when the window is full, and nothing else changes the history.
C16_PreviousDuty ==
    /\ [][pc = "loop" /\ pc' = "detect" =>
            /\ last_rate' = (IF tick = 0 THEN NoRate ELSE rate)
            /\ tick >= 1 => last_rate' = sent[1].duty /\ last_rate' = sent[2].duty
            /\ rates(history') =
                 Append(IF full(history) THEN Tail(rates(history))
                        ELSE rates(history), rate')]_vars
    /\ [][~(pc = "loop" /\ pc' = "detect") => history' = history]_vars
    /\ [](tick >= 1 => rates(history)[Len(rates(history))] = rate)

\* C16 witness: the ring has wrapped, the tick before commanded 100, this
\* tick reads 100 as the previous duty and commands something else.
C16_Witness ==
    /\ pc = "detect"
    /\ tick >= 6
    /\ history.start # 0
    /\ last_rate = CURVE_END_LEVEL
    /\ rate # last_rate
    /\ rates(history)[RATES_LEN - 1] = last_rate


\* C17: with the previous duty taken from the history and the target any value
\* of 0..255, the substituted 255 included, the operands of both narrowing
\* conversions lie in 0..255, and the loop never ends in a panic.
C17_ConversionsFit ==
    /\ pc # "exit"
    /\ (pc = "detect" /\ last_rate # NoRate) =>
          LET diff == curved - last_rate IN
          /\ diff > UP_DRAG => (last_rate + diff - UP_DRAG) \in 0..255
          /\ diff < -DOWN_DRAG => (last_rate + diff + DOWN_DRAG) \in 0..255

\* C17 witness: the widest fall, from the band ceiling to target 0; the
\* conversion took 8, the clamp raised it to the floor.
C17_Witness ==
    /\ pc = "detect"
    /\ last_rate = CURVE_END_LEVEL
    /\ curved = 0
    /\ rate = CURVE_START_LEVEL


\* C18: on a tick whose curved target is the target of the tick before, the
\* commanded duty is the duty of the tick before: under a constant target X
\* the duty can change on the first tick that sees X and on no later tick.
\* The duty reached is a fixed point of smoother plus clamp for its target.
C18_NoOscillation ==
    /\ [][(pc = "loop" /\ pc' = "detect" /\ tick >= 1 /\ curved' = curved)
            => rate' = rate]_vars
    /\ [](pc = "detect" => clamp(smooth(curved, rate)) = rate)

\* C18 witness: prior duty 15, target 255 held for four ticks: the duty went
\* to 100 on the first of them and stayed.
C18_Witness ==
    /\ pc = "detect"
    /\ curved = 255
    /\ rates(history) = << CURVE_START_LEVEL, CURVE_END_LEVEL, CURVE_END_LEVEL,
                           CURVE_END_LEVEL, CURVE_END_LEVEL >>
    /\ last_rate = rate


\* C19: the lockout is always within 0..15 and is raised only from zero;
\* whenever it is nonzero it later reaches zero; once the history is full
\* the detector is evaluated again and again; and every evaluation that
\* finds the anomaly condition requests a reset.
C19_DetectorReturns ==
    /\ [](reset_lockout \in 0..RESET_LOCKOUT)
    /\ [][reset_lockout' > reset_lockout => reset_lockout = 0]_vars
    /\ (reset_lockout > 0) ~> (reset_lockout = 0)
    /\ [](full(history) => <>evaluated)
    /\ [](evaluated /\ anomaly(history, actual_speed) => reset_requested)

\* C19 witness: the 15th tick after a reset tick: the lockout ran out, the
\* detector was evaluated again, found the anomaly and requested a reset.
C19_Witness ==
    /\ full(history)
    /\ evaluated
    /\ anomaly(history, actual_speed)
    /\ reset_requested
    /\ since_reset = 15
    /\ reset_lockout = RESET_LOCKOUT


\* C20 as claimed: the context handle is never destroyed twice, a process
\* that ended after creating it destroyed it, and no library call is made on
\* a handle after it was destroyed.
C20_Claimed ==
    /\ destroys <= 1
    /\ (pc = "exit" /\ context # "null") => (context = "destroyed" /\ destroys = 1)
    /\ ~stale_use

====
